---- MODULE Spec2Model ----
(***************************************************************************)
(* Young diagrams in a height x width box (young/diagram.py) and the       *)
(* family of all diagrams of a box (young/diagrams.py).                    *)
(*                                                                         *)
(* A diagram is a record                                                   *)
(*   [exc, height, width, usual_description, binary_description]           *)
(* where exc = "none" for a constructed object.  A call that raises is     *)
(* represented by the record Raised(e), e the exception's name.            *)
(* Python tuples and strings are sequences; index i of the source is       *)
(* index i + 1 here.                                                       *)
(***************************************************************************)
EXTENDS Integers, Sequences, FiniteSets, TLC

\* ------------------------------------------------------------------------
\* Bounds of the model
\* ------------------------------------------------------------------------
MaxHeight == 3
MaxWidth == 3
MaxSteps == 7
MaxFamilyHeight == 3
MaxFamilyWidth == 4

\* ------------------------------------------------------------------------
\* Python helpers
\* ------------------------------------------------------------------------
Min(a, b) == IF a <= b THEN a ELSE b

Max(a, b) == IF a >= b THEN a ELSE b

\* seq[start:] with Python's treatment of negative and out-of-range indices
PySliceFrom(seq, start) ==
    LET n == Len(seq)
        s == IF start < 0 THEN Max(start + n, 0) ELSE Min(start, n)
    IN  SubSeq(seq, s + 1, n)

\* seq[:stop]; note that seq[:-0] is seq[:0], the empty sequence
PySliceTo(seq, stop) ==
    LET n == Len(seq)
        e == IF stop < 0 THEN Max(stop + n, 0) ELSE Min(stop, n)
    IN  SubSeq(seq, 1, e)

\* seq[::-1]
PyReverse(seq) == [i \in 1..Len(seq) |-> seq[Len(seq) + 1 - i]]

\* string.count(symbol)
PyCount(string, symbol) == Cardinality({i \in 1..Len(string) : string[i] = symbol})

Raised(e) ==
    [exc |-> e, height |-> 0, width |-> 0,
     usual_description |-> <<>>, binary_description |-> <<>>]

\* ------------------------------------------------------------------------
\* YoungDiagram.__init__
\* ------------------------------------------------------------------------
\* the loop of assertions over usual_description: every entry is
\* non-negative and at most the previous one (the width for the first)
RowsAccepted(width, usual_description) ==
    \A i \in 1..Len(usual_description) :
        /\ 0 <= usual_description[i]
        /\ usual_description[i] <=
              (IF i = 1 THEN width ELSE usual_description[i - 1])

\* tuple(stock + (height - len(stock)) * [0])
PadRows(stock, height) ==
    stock \o [i \in 1..(height - Len(stock)) |-> 0]

\* BinaryWalk with the test `x <= row length` in place of `x < row length`
RECURSIVE BinaryWalk_le(_, _, _, _)
BinaryWalk_le(usual_description, x, y, todo) ==
    IF todo = 0 THEN <<>>
    ELSE IF y = 0
         THEN <<"R">> \o BinaryWalk_le(usual_description, x, y, todo - 1)
         ELSE IF x <= usual_description[y]
              THEN <<"R">> \o BinaryWalk_le(usual_description, x + 1, y, todo - 1)
              ELSE <<"U">> \o BinaryWalk_le(usual_description, x, y - 1, todo - 1)

\* the walk that writes the binary description, `todo` steps remaining
RECURSIVE BinaryWalk(_, _, _, _)
BinaryWalk(usual_description, x, y, todo) ==
    IF todo = 0 THEN <<>>
    ELSE IF y = 0
         THEN <<"R">> \o BinaryWalk(usual_description, x, y, todo - 1)
         ELSE IF x < usual_description[y]
              THEN <<"R">> \o BinaryWalk(usual_description, x + 1, y, todo - 1)
              ELSE <<"U">> \o BinaryWalk(usual_description, x, y - 1, todo - 1)

YoungDiagram(height, width, usual_description) ==
    IF \/ ~(0 <= height)
       \/ ~(0 <= width)
       \/ ~(Len(usual_description) <= height)
       \/ ~RowsAccepted(width, usual_description)
    THEN Raised("AssertionError")
    ELSE LET rows == PadRows(usual_description, height)
         IN  [exc |-> "none", height |-> height, width |-> width,
              usual_description |-> rows,
              binary_description |-> BinaryWalk(rows, 0, height, height + width)]

\* __repr__ : the triple (height, width, usual_description)
repr(self) == <<self.height, self.width, self.usual_description>>

\* __eq__ between two YoungDiagram objects
eq(self, other) == repr(self) = repr(other)

\* ------------------------------------------------------------------------
\* YoungDiagram.Construct_From_Binary_Description
\* ------------------------------------------------------------------------
\* the loop collecting column_heights, column_height being the running value
RECURSIVE ColumnHeights(_, _)
ColumnHeights(string, column_height) ==
    IF string = <<>> THEN <<>>
    ELSE IF Head(string) = "U"
         THEN ColumnHeights(Tail(string), column_height - 1)
         ELSE IF Head(string) = "R"
              THEN <<column_height>> \o ColumnHeights(Tail(string), column_height)
              ELSE ColumnHeights(Tail(string), column_height)

Construct_From_Binary_Description(string) ==
    LET n == Len(string)
        height == PyCount(string, "U")
        width == PyCount(string, "R")
        column_heights == ColumnHeights(string, height)
        row_widths ==
            [row \in 1..height |->
                Cardinality({c \in 1..Len(column_heights) :
                                (row - 1) <= column_heights[c] - 1})]
    IN  IF n # height + width
        THEN Raised("AssertionError")
        ELSE YoungDiagram(height, width, row_widths)

\* ------------------------------------------------------------------------
\* Ordering
\* ------------------------------------------------------------------------
\* the loop of __lt__ running over range(height - 1): the last row is skipped
RECURSIVE LtFromRow_short(_, _, _)
LtFromRow_short(self, other, row_counter) ==
    IF row_counter >= self.height - 1 THEN FALSE
    ELSE LET e1 == self.usual_description[row_counter + 1]
             e2 == other.usual_description[row_counter + 1]
         IN  IF e1 < e2 THEN TRUE
             ELSE IF e1 = e2 THEN LtFromRow_short(self, other, row_counter + 1)
                  ELSE FALSE

\* the loop of __lt__ from row_counter (0-based) on
RECURSIVE LtFromRow(_, _, _)
LtFromRow(self, other, row_counter) ==
    IF row_counter >= self.height THEN FALSE
    ELSE LET e1 == self.usual_description[row_counter + 1]
             e2 == other.usual_description[row_counter + 1]
         IN  IF e1 < e2 THEN TRUE
             ELSE IF e1 = e2 THEN LtFromRow(self, other, row_counter + 1)
                  ELSE FALSE

\* __lt__ raises when the boxes differ
lt_raises(self, other) ==
    \/ self.height # other.height
    \/ self.width # other.width

lt(self, other) == LtFromRow(self, other, 0)

\* __gt__ : other < self
gt(self, other) == lt(other, self)

\* __le__ : (self == other) or (self < other)
le(self, other) == eq(self, other) \/ lt(self, other)

\* __ge__ : (self == other) or (self > other)
ge(self, other) == eq(self, other) \/ gt(self, other)

\* ------------------------------------------------------------------------
\* complement, cyclic_action, triangularity
\* ------------------------------------------------------------------------
\* complement exchanging the symbols U and R instead of reversing the string
complement_swap(self) ==
    Construct_From_Binary_Description(
        [i \in 1..Len(self.binary_description) |->
            IF self.binary_description[i] = "U" THEN "R" ELSE "U"])

complement(self) ==
    Construct_From_Binary_Description(PyReverse(self.binary_description))

cyclic_action(self, steps) ==
    LET n == self.height + self.width
    IN  IF 0 < n
        THEN LET s == steps % n
                 old == self.binary_description
                 new == PySliceFrom(old, n - s) \o PySliceTo(old, -s)
             IN  Construct_From_Binary_Description(new)
        ELSE Raised("NotImplementedError")

\* is_upper_triangular raises NotImplementedError when the height is 0
is_upper_triangular_raises(self) == ~(0 < self.height)

\* row_length <= width * (height - row_counter) / height, compared exactly
is_upper_triangular(self) ==
    \A row \in 1..self.height :
        self.usual_description[row] * self.height
            <= self.width * (self.height - (row - 1))

is_lower_triangular_raises(self) == is_upper_triangular_raises(complement(self))

is_lower_triangular(self) == is_upper_triangular(complement(self))

\* ------------------------------------------------------------------------
\* orbit_length, steps_to_next_lower_triangular
\* ------------------------------------------------------------------------
\* values returned by the integer-valued methods
Int_(k) == [kind |-> "int", value |-> k]

None_ == [kind |-> "None", value |-> 0]

Raises_ == [kind |-> "raised", value |-> 0]

Pending_ == [kind |-> "pending", value |-> 0]

\* the `while True` loop of orbit_length; `counter` is the value before the
\* increment.  The guard on counter only keeps the recursion well-founded.
RECURSIVE OrbitLengthLoop(_, _, _, _)
OrbitLengthLoop(n, initial_string, previous_string, counter) ==
    LET next_string ==
            PySliceFrom(previous_string, n - 1) \o PySliceTo(previous_string, -1)
    IN  IF next_string = initial_string THEN Int_(counter + 1)
        ELSE IF counter > n + 1 THEN [kind |-> "diverges", value |-> 0]
             ELSE OrbitLengthLoop(n, initial_string, next_string, counter + 1)

orbit_length(self) ==
    OrbitLengthLoop(self.height + self.width, self.binary_description,
                    self.binary_description, 0)

\* the loop of steps_to_next_lower_triangular testing is_upper_triangular
\* where the source tests is_lower_triangular
RECURSIVE StepsLoop_upper(_, _, _)
StepsLoop_upper(self, current, steps) ==
    IF ~(steps < self.height + self.width) THEN None_
    ELSE IF current.exc # "none" \/ is_upper_triangular_raises(current)
         THEN Raises_
         ELSE IF is_upper_triangular(current) THEN Int_(steps)
              ELSE StepsLoop_upper(self, cyclic_action(current, 1), steps + 1)

\* the `while steps < self._n` loop of steps_to_next_lower_triangular
RECURSIVE StepsLoop(_, _, _)
StepsLoop(self, current, steps) ==
    IF ~(steps < self.height + self.width) THEN None_
    ELSE IF current.exc # "none" \/ is_lower_triangular_raises(current)
         THEN Raises_
         ELSE IF is_lower_triangular(current) THEN Int_(steps)
              ELSE StepsLoop(self, cyclic_action(current, 1), steps + 1)

steps_to_next_lower_triangular(self) == StepsLoop(self, self, 0)

\* ------------------------------------------------------------------------
\* Input spaces
\* ------------------------------------------------------------------------
\* all sequences over S of length at most n
RECURSIVE SeqsUpTo(_, _)
SeqsUpTo(S, n) ==
    IF n = 0 THEN {<<>>}
    ELSE LET shorter == SeqsUpTo(S, n - 1)
         IN  shorter \cup {Append(q, x) : q \in {t \in shorter : Len(t) = n - 1}, x \in S}

RowInputs == SeqsUpTo(0..MaxWidth, MaxHeight)

StringInputs == SeqsUpTo({"U", "R", "X"}, MaxHeight + MaxWidth)

StepInputs == (0 - MaxSteps)..MaxSteps

\* the row lengths __init__ accepts for a box, in full length
AcceptedRows(height, width) ==
    {q \in [1..height -> 0..width] : RowsAccepted(width, q)}

\* every diagram that can be constructed within the bounds
AllDiagrams ==
    UNION {{YoungDiagram(h, w, ud) : ud \in AcceptedRows(h, w)} :
              h \in 0..MaxHeight, w \in 0..MaxWidth}

\* ------------------------------------------------------------------------
\* State
\* ------------------------------------------------------------------------
VARIABLES
    pc,                 \* the call made last / the position of a generator
    self,               \* the YoungDiagram the methods are called on
    args,               \* the arguments of the call made last
    result,             \* what the call made last returned
    first_object,       \* cyclic_orbit: first_object
    current_object,     \* cyclic_orbit: current_object
    yielded,            \* the objects a generator has yielded so far
    family,             \* the YoungDiagrams family: [height, width]
    call,               \* which generator of the family is being consumed
    usual_descriptions, \* get_upper_triangulars: descriptions not yet consumed
    cyclic_orbits,      \* get_minimal_upper_triangulars: cyclic_orbits
    cyclic_orbit,       \* get_minimal_upper_triangulars: cyclic_orbit
    minimal_object      \* get_minimal_upper_triangulars: minimal_object

vars == <<pc, self, args, result, first_object, current_object, yielded,
          family, call, usual_descriptions, cyclic_orbits, cyclic_orbit,
          minimal_object>>

orbitVars == <<first_object, current_object, yielded>>

familyVars == <<family, call, usual_descriptions, cyclic_orbits, cyclic_orbit,
                minimal_object>>

NoObject == Raised("no object")

\* ------------------------------------------------------------------------
\* SpecDiagram: construct one diagram, then call one of its methods
\* ------------------------------------------------------------------------
InitDiagram ==
    /\ pc = "start"
    /\ self = NoObject
    /\ args = <<>>
    /\ result = <<>>
    /\ first_object = NoObject
    /\ current_object = NoObject
    /\ yielded = <<>>
    /\ family = <<>>
    /\ call = "none"
    /\ usual_descriptions = <<>>
    /\ cyclic_orbits = <<>>
    /\ cyclic_orbit = <<>>
    /\ minimal_object = NoObject

Constructed == pc \in {"YoungDiagram", "Construct_From_Binary_Description"} /\ self.exc = "none"

\* d = YoungDiagram(height, width, usual_description)
New(height, width, usual_description) ==
    /\ pc = "start"
    /\ pc' = "YoungDiagram"
    /\ args' = [height |-> height, width |-> width,
                usual_description |-> usual_description]
    /\ result' = YoungDiagram(height, width, usual_description)
    /\ self' = result'
    /\ UNCHANGED <<orbitVars, familyVars>>

\* d = YoungDiagram.Construct_From_Binary_Description(string)
FromBinary(string) ==
    /\ pc = "start"
    /\ pc' = "Construct_From_Binary_Description"
    /\ args' = [string |-> string]
    /\ result' = Construct_From_Binary_Description(string)
    /\ self' = result'
    /\ UNCHANGED <<orbitVars, familyVars>>

\* d.complement()
Complement ==
    /\ Constructed
    /\ pc' = "complement"
    /\ args' = <<>>
    /\ result' = complement(self)
    /\ UNCHANGED <<self, orbitVars, familyVars>>

\* d.cyclic_action(steps)
CyclicAction(steps) ==
    /\ Constructed
    /\ pc' = "cyclic_action"
    /\ args' = [steps |-> steps]
    /\ result' = cyclic_action(self, steps)
    /\ UNCHANGED <<self, orbitVars, familyVars>>

\* d == other, d < other, d > other, d <= other, d >= other.  The four
\* order operators raise AssertionError when the boxes differ; == does not.
Compare(other) ==
    /\ Constructed
    /\ pc' = "compare"
    /\ args' = [other |-> other]
    /\ result' =
          IF lt_raises(self, other)
          THEN [exc |-> "AssertionError", eq |-> eq(self, other),
                lt |-> FALSE, gt |-> FALSE, le |-> FALSE, ge |-> FALSE]
          ELSE [exc |-> "none", eq |-> eq(self, other),
                lt |-> lt(self, other), gt |-> gt(self, other),
                le |-> le(self, other), ge |-> ge(self, other)]
    /\ UNCHANGED <<self, orbitVars, familyVars>>

\* the guards are repeated in front of the quantifiers so that the inputs
\* are enumerated only where the action is enabled
NextDiagram ==
    \/ /\ pc = "start"
       /\ \E height \in 0..MaxHeight, width \in 0..MaxWidth,
             usual_description \in RowInputs :
             New(height, width, usual_description)
    \/ /\ pc = "start"
       /\ \E string \in StringInputs : FromBinary(string)
    \/ Complement
    \/ /\ Constructed
       /\ \E steps \in StepInputs : CyclicAction(steps)
    \/ /\ Constructed
       /\ \E other \in AllDiagrams : Compare(other)

SpecDiagram == InitDiagram /\ [][NextDiagram]_vars

\* ------------------------------------------------------------------------
\* SpecOrbit: the orbit methods of one diagram.  cyclic_orbit is a
\* generator: it is suspended at its yield and resumed by its consumer,
\* and the other methods can be called in between.
\* ------------------------------------------------------------------------
InitOrbit ==
    /\ pc = "idle"
    /\ self \in AllDiagrams
    /\ args = <<>>
    /\ result = [orbit_length |-> Pending_,
                 steps_to_next_lower_triangular |-> Pending_]
    /\ first_object = NoObject
    /\ current_object = NoObject
    /\ yielded = <<>>
    /\ family = <<>>
    /\ call = "none"
    /\ usual_descriptions = <<>>
    /\ cyclic_orbits = <<>>
    /\ cyclic_orbit = <<>>
    /\ minimal_object = NoObject

\* d.orbit_length()
OrbitLength ==
    /\ result.orbit_length = Pending_
    /\ result' = [result EXCEPT !.orbit_length = orbit_length(self)]
    /\ UNCHANGED <<pc, self, args, orbitVars, familyVars>>

\* d.steps_to_next_lower_triangular()
StepsToNextLowerTriangular ==
    /\ result.steps_to_next_lower_triangular = Pending_
    /\ result' = [result EXCEPT !.steps_to_next_lower_triangular =
                                    steps_to_next_lower_triangular(self)]
    /\ UNCHANGED <<pc, self, args, orbitVars, familyVars>>

\* the first next() on d.cyclic_orbit(): runs up to the first yield
CyclicOrbitStart ==
    /\ pc = "idle"
    /\ first_object' = self
    /\ current_object' = self
    /\ yielded' = <<self>>
    /\ pc' = "orbit_yield"
    /\ UNCHANGED <<self, args, result, familyVars>>

\* what resuming the generator after a yield does: the next object, and
\* whether the generator raises, stops or yields again
OrbitResume(first, current) ==
    LET next_object == cyclic_action(current, 1)
    IN  [current_object |-> next_object,
         pc |-> IF next_object.exc # "none" THEN "orbit_raised"
                ELSE IF eq(next_object, first) THEN "orbit_exhausted"
                     ELSE "orbit_yield"]

\* a further next(): current_object >> 1, then break or yield
CyclicOrbitNext ==
    /\ pc = "orbit_yield"
    /\ LET r == OrbitResume(first_object, current_object)
       IN  /\ current_object' = r.current_object
           /\ pc' = r.pc
           /\ yielded' = IF r.pc = "orbit_yield"
                         THEN Append(yielded, r.current_object)
                         ELSE yielded
    /\ UNCHANGED <<self, args, result, first_object, familyVars>>

NextOrbit ==
    \/ OrbitLength
    \/ StepsToNextLowerTriangular
    \/ CyclicOrbitStart
    \/ CyclicOrbitNext

SpecOrbit == InitOrbit /\ [][NextOrbit]_vars

\* ------------------------------------------------------------------------
\* SpecFamily: the generators of a family YoungDiagrams(height, width),
\* consumed one next() at a time
\* ------------------------------------------------------------------------
\* ceiling[row_counter] = floor(width * (height - row_counter - 1) / height)
ceiling(height, width) ==
    [row \in 1..height |-> (width * (height - (row - 1) - 1)) \div height]

\* q comes before p in the order IntegerListsLex iterates in (lexicographically
\* larger lists first)
IteratedBefore(q, p) ==
    \E i \in 1..Len(q) : q[i] > p[i] /\ \A j \in 1..(i - 1) : q[j] = p[j]

\* the lists of IntegerListsLex(max_part, length, ceiling, max_slope=0):
\* parts in [0, max_part], part i at most ceiling[i], no part larger than
\* the one before it
IntegerLists(max_part, length, ceil) ==
    {q \in [1..length -> 0..max_part] :
        /\ \A i \in 1..length : q[i] <= ceil[i]
        /\ \A i \in 1..(length - 1) : q[i + 1] - q[i] <= 0}

\* the lists of S in iteration order
RECURSIVE InIterationOrder(_)
InIterationOrder(S) ==
    IF S = {} THEN <<>>
    ELSE LET first == CHOOSE q \in S : \A p \in S \ {q} : IteratedBefore(q, p)
         IN  <<first>> \o InIterationOrder(S \ {first})

\* the list usual_descriptions of get_upper_triangulars after reverse()
UsualDescriptions(height, width) ==
    PyReverse(InIterationOrder(
        IntegerLists(width, height, ceiling(height, width))))

\* the object the generator expression of get_upper_triangulars constructs
\* for one usual description
UpperTriangularObject(fam, usual_description) ==
    YoungDiagram(fam.width, fam.height, usual_description)

\* minimal_object after the body of `for fellow` for an upper-triangular
\* fellow that keeps the current minimum
KeepMinimal(fellow, minimal) == minimal

\* minimal_object after the body of `for fellow` for an upper-triangular fellow
UpdateMinimal(fellow, minimal) ==
    IF lt(fellow, minimal) THEN fellow ELSE minimal

\* `YD in cyclic_orbit` for some recorded cyclic_orbit
DidAlreadyAppear(YD, orbits) ==
    \E i \in 1..Len(orbits) : \E j \in 1..Len(orbits[i]) : eq(YD, orbits[i][j])

InitFamily ==
    /\ pc = "idle"
    /\ family \in [height : 0..MaxFamilyHeight, width : 0..MaxFamilyWidth]
    /\ call = "none"
    /\ self = NoObject
    /\ args = <<>>
    /\ result = <<>>
    /\ first_object = NoObject
    /\ current_object = NoObject
    /\ yielded = <<>>
    /\ usual_descriptions = <<>>
    /\ cyclic_orbits = <<>>
    /\ cyclic_orbit = <<>>
    /\ minimal_object = NoObject

\* the call of get_upper_triangulars: the list is built at once, the objects
\* are constructed one by one as the generator expression is consumed
EnterUpperTriangulars ==
    IF 0 < family.height
    THEN /\ usual_descriptions' = UsualDescriptions(family.height, family.width)
         /\ pc' = "for_usual_description"
    ELSE /\ usual_descriptions' = <<>>
         /\ pc' = "raised"

\* it = family.get_upper_triangulars()
GetUpperTriangulars ==
    /\ pc = "idle"
    /\ call' = "get_upper_triangulars"
    /\ EnterUpperTriangulars
    /\ UNCHANGED <<self, args, result, orbitVars, family, cyclic_orbits,
                   cyclic_orbit, minimal_object>>

\* next(it) on the generator of get_upper_triangulars
UpperTriangularsNext ==
    /\ pc = "for_usual_description"
    /\ call = "get_upper_triangulars"
    /\ IF usual_descriptions = <<>>
       THEN /\ pc' = "exhausted"
            /\ UNCHANGED <<yielded, usual_descriptions>>
       ELSE LET YD == UpperTriangularObject(family, Head(usual_descriptions))
            IN  IF YD.exc # "none"
                THEN /\ pc' = "raised"
                     /\ UNCHANGED <<yielded, usual_descriptions>>
                ELSE /\ pc' = pc
                     /\ yielded' = Append(yielded, YD)
                     /\ usual_descriptions' = Tail(usual_descriptions)
    /\ UNCHANGED <<self, args, result, first_object, current_object, family,
                   call, cyclic_orbits, cyclic_orbit, minimal_object>>

\* the first next() on family.get_minimal_upper_triangulars(), up to the
\* start of the loop `for YD in self.get_upper_triangulars()`
GetMinimalUpperTriangulars ==
    /\ pc = "idle"
    /\ call' = "get_minimal_upper_triangulars"
    /\ cyclic_orbits' = <<>>
    /\ EnterUpperTriangulars
    /\ UNCHANGED <<self, args, result, orbitVars, family, cyclic_orbit,
                   minimal_object>>

\* one round of `for YD in ...`: the next YD is constructed and looked up in
\* cyclic_orbits; a new one starts the loop over its cyclic orbit
MinimalNextYD ==
    /\ pc = "for_usual_description"
    /\ call = "get_minimal_upper_triangulars"
    /\ IF usual_descriptions = <<>>
       THEN /\ pc' = "exhausted"
            /\ UNCHANGED <<usual_descriptions, first_object, current_object,
                           cyclic_orbit, minimal_object>>
       ELSE LET YD == UpperTriangularObject(family, Head(usual_descriptions))
            IN  IF YD.exc # "none"
                THEN /\ pc' = "raised"
                     /\ UNCHANGED <<usual_descriptions, first_object,
                                    current_object, cyclic_orbit, minimal_object>>
                ELSE /\ usual_descriptions' = Tail(usual_descriptions)
                     /\ IF DidAlreadyAppear(YD, cyclic_orbits)
                        THEN /\ pc' = pc
                             /\ UNCHANGED <<first_object, current_object,
                                            cyclic_orbit, minimal_object>>
                        ELSE /\ pc' = "for_fellow"
                             /\ minimal_object' = YD
                             /\ cyclic_orbit' = <<>>
                             /\ first_object' = YD
                             /\ current_object' = YD
    /\ UNCHANGED <<self, args, result, yielded, family, call, cyclic_orbits>>

\* one round of `for fellow in YD.cyclic_orbit()`: the body for the fellow
\* the orbit has yielded, then the orbit is resumed; when it stops, the
\* cyclic_orbit is recorded and minimal_object is yielded
MinimalFellow ==
    /\ pc = "for_fellow"
    /\ LET fellow == current_object
           upper == is_upper_triangular(fellow)
           r == OrbitResume(first_object, fellow)
           orbit == IF upper THEN Append(cyclic_orbit, fellow) ELSE cyclic_orbit
           minimal == IF upper THEN UpdateMinimal(fellow, minimal_object)
                      ELSE minimal_object
       IN  IF \/ is_upper_triangular_raises(fellow)
              \/ (upper /\ lt_raises(fellow, minimal_object))
              \/ r.pc = "orbit_raised"
           THEN /\ pc' = "raised"
                /\ UNCHANGED <<current_object, yielded, cyclic_orbits,
                               cyclic_orbit, minimal_object>>
           ELSE /\ cyclic_orbit' = orbit
                /\ minimal_object' = minimal
                /\ current_object' = r.current_object
                /\ IF r.pc = "orbit_exhausted"
                   THEN /\ cyclic_orbits' = Append(cyclic_orbits, orbit)
                        /\ yielded' = Append(yielded, minimal)
                        /\ pc' = "for_usual_description"
                   ELSE /\ pc' = pc
                        /\ UNCHANGED <<cyclic_orbits, yielded>>
    /\ UNCHANGED <<self, args, result, first_object, family, call,
                   usual_descriptions>>

NextFamily ==
    \/ GetUpperTriangulars
    \/ UpperTriangularsNext
    \/ GetMinimalUpperTriangulars
    \/ MinimalNextYD
    \/ MinimalFellow

SpecFamily == InitFamily /\ [][NextFamily]_vars

\* ------------------------------------------------------------------------
\* Notions the properties are stated with
\* ------------------------------------------------------------------------
\* rows is weakly decreasing with entries in [0, width] and length <= height
ValidRows(height, width, rows) ==
    /\ Len(rows) <= height
    /\ \A i \in 1..Len(rows) : 0 <= rows[i] /\ rows[i] <= width
    /\ \A i \in 1..(Len(rows) - 1) : rows[i] >= rows[i + 1]

OverUR(string) == \A i \in 1..Len(string) : string[i] \in {"U", "R"}

\* code shifted cyclically by k positions: position i moves to position i + k
ShiftedCode(code, k) ==
    [i \in 1..Len(code) |-> code[((i - 1 - k) % Len(code)) + 1]]

\* a is lexicographically smaller than b, top row first
LexLess(a, b) ==
    \E i \in 1..Len(a) : a[i] < b[i] /\ \A j \in 1..(i - 1) : a[j] = b[j]

Perimeter(d) == d.height + d.width

\* ------------------------------------------------------------------------
\* Properties of SpecDiagram
\* ------------------------------------------------------------------------
\* C1: the two constructors are mutual inverses.  A diagram built from valid
\* (height, width, row_lengths) has a binary code of length height + width
\* with exactly height U and width R, and decoding that code gives an equal
\* diagram; decoding a string over {U, R} gives a diagram whose height and
\* width are the numbers of U and R and whose binary code is the string.
C1_ConstructorsInverse ==
    /\ (pc = "YoungDiagram"
          /\ ValidRows(args.height, args.width, args.usual_description))
       => /\ result.exc = "none"
          /\ Len(result.binary_description) = args.height + args.width
          /\ PyCount(result.binary_description, "U") = args.height
          /\ PyCount(result.binary_description, "R") = args.width
          /\ eq(Construct_From_Binary_Description(result.binary_description),
                result)
    /\ (pc = "Construct_From_Binary_Description" /\ OverUR(args.string))
       => /\ result.exc = "none"
          /\ result.height = PyCount(args.string, "U")
          /\ result.width = PyCount(args.string, "R")
          /\ result.binary_description = args.string

C1_Witness ==
    /\ pc = "YoungDiagram"
    /\ args.height = 3 /\ args.width = 2
    /\ args.usual_description = <<2, 1>>
    /\ result.exc = "none"
    /\ result.usual_description = <<2, 1, 0>>

\* C2: for a diagram of perimeter >= 1, cyclic_action(steps) is a diagram of
\* the same box whose binary code is the diagram's code shifted cyclically
\* by steps mod perimeter, so a multiple of the perimeter gives an equal
\* diagram.
C2_CyclicActionShifts ==
    (pc = "cyclic_action" /\ Perimeter(self) >= 1)
    => /\ result.exc = "none"
       /\ result.height = self.height
       /\ result.width = self.width
       /\ result.binary_description =
             ShiftedCode(self.binary_description, args.steps % Perimeter(self))
       /\ (args.steps % Perimeter(self) = 0 => eq(result, self))

\* C9: the complement lies in the same box, its row r is
\* width - row_lengths[height - 1 - r], and the complement of the complement
\* is the diagram.
C9_Complement ==
    pc = "complement"
    => /\ result.exc = "none"
       /\ result.height = self.height
       /\ result.width = self.width
       /\ \A r \in 1..self.height :
             result.usual_description[r] =
                self.width - self.usual_description[self.height + 1 - r]
       /\ eq(complement(result), self)

C9_Witness ==
    /\ pc = "complement"
    /\ self.height = 3 /\ self.width = 3
    /\ self.usual_description = <<3, 1, 0>>
    /\ result.usual_description = <<3, 2, 0>>

\* C10: on one box exactly one of d1 < d2, d1 == d2, d1 > d2 holds, < being
\* the lexicographic order of the row lengths read top row first;
\* d1 <= d2 iff not d1 > d2, and d1 >= d2 iff not d1 < d2.
C10_TotalOrder ==
    (pc = "compare" /\ self.height = args.other.height
                    /\ self.width = args.other.width)
    => /\ result.exc = "none"
       /\ Cardinality({x \in {"lt", "eq", "gt"} : result[x]}) = 1
       /\ result.lt <=> LexLess(self.usual_description,
                                args.other.usual_description)
       /\ result.le <=> ~result.gt
       /\ result.ge <=> ~result.lt

C10_Witness ==
    /\ pc = "compare"
    /\ result.exc = "none"
    /\ self.usual_description = <<2, 1, 0>>
    /\ args.other.usual_description = <<2, 1, 1>>
    /\ result.lt /\ result.le /\ ~result.ge

\* ------------------------------------------------------------------------
\* Properties of SpecOrbit
\* ------------------------------------------------------------------------
\* the diagram with binary code `code`, read off the code directly: row r
\* (1-based) is the number of R before the (height + 1 - r)-th U
RowsOfCode(code) ==
    LET height == PyCount(code, "U")
        PosOfU(k) == CHOOSE i \in 1..Len(code) :
                        /\ code[i] = "U"
                        /\ Cardinality({j \in 1..i : code[j] = "U"}) = k
    IN  [r \in 1..height |->
            Cardinality({j \in 1..PosOfU(height + 1 - r) : code[j] = "R"})]

\* rows of a diagram of the box that is lower-triangular: the complement,
\* whose row r is width - rows[height + 1 - r], is upper-triangular
LowerTriangularRows(height, width, rows) ==
    \A r \in 1..height :
        (width - rows[height + 1 - r]) * height <= width * (height - (r - 1))

\* d rotated by k positions is lower-triangular
RotationIsLowerTriangular(d, k) ==
    LowerTriangularRows(d.height, d.width,
                        RowsOfCode(ShiftedCode(d.binary_description, k)))

\* C3: for a diagram of perimeter >= 1, cyclic_orbit() raises nothing and
\* yields at most perimeter diagrams, the first being the diagram and all
\* of its box; the number it yields is orbit_length() and divides the
\* perimeter.
C3_CyclicOrbit ==
    Perimeter(self) >= 1
    => /\ pc # "orbit_raised"
       /\ Len(yielded) <= Perimeter(self)
       /\ \A i \in 1..Len(yielded) :
             /\ yielded[i].height = self.height
             /\ yielded[i].width = self.width
             /\ (i = 1 => eq(yielded[i], self))
       /\ (pc = "orbit_exhausted" /\ result.orbit_length # Pending_)
          => /\ result.orbit_length = Int_(Len(yielded))
             /\ Perimeter(self) % Len(yielded) = 0

\* C8: for a diagram of height >= 1, steps_to_next_lower_triangular()
\* returns the smallest k >= 0 such that the diagram rotated by k positions
\* is lower-triangular; k is at most the perimeter and None is never
\* returned.
C8_StepsToNextLowerTriangular ==
    (self.height >= 1 /\ result.steps_to_next_lower_triangular # Pending_)
    => LET ret == result.steps_to_next_lower_triangular
       IN  /\ ret.kind = "int"
           /\ 0 <= ret.value /\ ret.value <= Perimeter(self)
           /\ RotationIsLowerTriangular(self, ret.value)
           /\ \A j \in 0..(ret.value - 1) : ~RotationIsLowerTriangular(self, j)

C8_Witness ==
    /\ self.height = 3 /\ self.width = 2
    /\ self.usual_description = <<2, 0, 0>>
    /\ result.steps_to_next_lower_triangular = Int_(3)

\* ------------------------------------------------------------------------
\* Properties of SpecFamily
\* ------------------------------------------------------------------------
\* row_length[r] * height <= width * (height - r) for every row r
UpperTriangularRows(height, width, rows) ==
    \A r \in 1..height : rows[r] * height <= width * (height - (r - 1))

\* the row lengths of the diagrams of the height x width box
BoxRows(height, width) ==
    {q \in [1..height -> 0..width] : \A i \in 1..(height - 1) : q[i] >= q[i + 1]}

\* the binary codes of the cyclic orbit of the diagram with binary code `code`
OrbitCodes(code) == {ShiftedCode(code, k) : k \in 0..(Len(code) - 1)}

\* the upper-triangular diagrams of the family's box, as binary codes
UpperTriangularCodes(fam) ==
    {YoungDiagram(fam.height, fam.width, q).binary_description :
        q \in {b \in BoxRows(fam.height, fam.width) :
                  UpperTriangularRows(fam.height, fam.width, b)}}

\* C4: get_minimal_upper_triangulars() yields exactly one diagram per cyclic
\* orbit of diagrams of the family's box that has an upper-triangular
\* member: no two yielded diagrams lie in one orbit, and every such orbit
\* has a yielded member.
C4_OnePerOrbit ==
    (call = "get_minimal_upper_triangulars" /\ family.height >= 1)
    => /\ \A i, j \in 1..Len(yielded) :
             i # j => yielded[j].binary_description
                         \notin OrbitCodes(yielded[i].binary_description)
       /\ pc \in {"exhausted", "raised"}
          => \A code \in UpperTriangularCodes(family) :
                \E i \in 1..Len(yielded) :
                   yielded[i].binary_description \in OrbitCodes(code)

\* C5: every diagram get_minimal_upper_triangulars() yields is
\* upper-triangular and lexicographically minimal among the upper-triangular
\* members of its cyclic orbit.
C5_MinimalOfOrbit ==
    call = "get_minimal_upper_triangulars"
    => \A i \in 1..Len(yielded) :
          LET m == yielded[i]
          IN  /\ UpperTriangularRows(m.height, m.width, m.usual_description)
              /\ \A code \in OrbitCodes(m.binary_description) :
                    UpperTriangularRows(m.height, m.width, RowsOfCode(code))
                    => ~LexLess(RowsOfCode(code), m.usual_description)

C5_Witness ==
    /\ call = "get_minimal_upper_triangulars"
    /\ family = [height |-> 3, width |-> 4]
    /\ \E i \in 1..Len(yielded) :
          /\ yielded[i].usual_description = <<1, 1, 1, 0>>
          /\ Len(cyclic_orbits[i]) >= 2
          /\ cyclic_orbits[i][1].usual_description = <<2, 0, 0, 0>>

\* C6: for a box of height >= 1, get_upper_triangulars() yields every
\* diagram of the box with row_length[r] * height <= width * (height - r)
\* for every row r, and yields it exactly once.
C6_UpperTriangularsComplete ==
    (call = "get_upper_triangulars" /\ family.height >= 1 /\ pc = "exhausted")
    => \A q \in BoxRows(family.height, family.width) :
          UpperTriangularRows(family.height, family.width, q)
          => Cardinality({i \in 1..Len(yielded) :
                            repr(yielded[i])
                               = <<family.height, family.width, q>>}) = 1

\* C7: for a box of height >= 1 and width >= 0, get_upper_triangulars()
\* raises no construction error, and every diagram it yields has the
\* family's height and width and is upper-triangular.
C7_UpperTriangularsInBox ==
    (call = "get_upper_triangulars" /\ family.height >= 1)
    => /\ pc # "raised"
       /\ \A i \in 1..Len(yielded) :
             /\ yielded[i].height = family.height
             /\ yielded[i].width = family.width
             /\ UpperTriangularRows(yielded[i].height, yielded[i].width,
                                    yielded[i].usual_description)

====
